---- MODULE Spec2Model ----
(***************************************************************************)
(* The review upload portal of streamlit-app/app.py: process_file stages   *)
(* an uploaded CSV in a bucket, loads it into the staging table and        *)
(* MERGEs recent staging rows into the fact table.  Every Streamlit        *)
(* session runs process_file on its own thread, so several runs share the  *)
(* bucket, the staging table and the fact table; a run yields at every     *)
(* call to an external service.                                            *)
(***************************************************************************)
EXTENDS Integers, Sequences, FiniteSets, Bags, TLC

\* ---------------------------------------------------------------- bounds
NumRuns == 2
MaxFileRows == 2
MaxCap == 2
MaxNow == 48
StartHour == 36
TickHours == 12

\* ------------------------------------------------------ program constants
\* INTERVAL 24 HOUR of the MERGE's WHERE clause
INTERVAL_HOURS == 24
\* the default of MAX_ROWS
DEFAULT_MAX_ROWS == 10000

Runs == 1 .. NumRuns

NULL == "NULL"

\* required_cols
required_cols == {"Date and Time", "Rating", "Location ID"}

\* the optional column the MERGE joins on
Columns == required_cols \cup {"Name"}

\* values of `Date and Time`, in hours on the clock of `now`: 12 is within
\* 24 hours of the clock until the clock passes 36, 60 is in the future of
\* every clock value
TimeStamps == {12, 60}
Names == {"ann", NULL}
Locations == {"LOC-001"}
FileNames == {"a.csv"}

\* one parsed row of the CSV (the columns the pipeline reads): a review of
\* the last day with or without a Name, or a review dated in the future
Row ==
    {x \in [Date_and_Time : TimeStamps, Name : Names, Location_ID : Locations] :
        x.Date_and_Time = 12 \/ x.Name # NULL}

RECURSIVE SeqsUpTo(_, _)
SeqsUpTo(S, n) ==
    IF n = 0 THEN {<<>>}
    ELSE LET shorter == SeqsUpTo(S, n - 1)
         IN  shorter \cup {Append(s, x) : s \in {t \in shorter : Len(t) = n - 1}, x \in S}

\* what the upload widget can hand to process_file: a CSV with a header and
\* rows, an empty file, or text the parser rejects.  A file without a
\* required column is rejected whatever its rows are, so one row stands for
\* them.
Files ==
    { f \in [name : FileNames, kind : {"csv"}, columns : SUBSET Columns,
             rows : SeqsUpTo(Row, MaxFileRows)] :
        /\ "Name" \in f.columns
        /\ (~ (required_cols \subseteq f.columns) =>
               f.rows = <<[Date_and_Time |-> 12, Name |-> "ann", Location_ID |-> "LOC-001"]>>) }
    \cup [name : FileNames, kind : {"empty", "malformed"}, columns : {{}}, rows : {<<>>}]

NoFile == [name |-> "", kind |-> "none", columns |-> {}, rows |-> <<>>]
NoBlob == [stamp |-> 0, file |-> ""]

\* MAX_ROWS = int(os.getenv("MAX_ROWS", "10000")): any integer the
\* environment holds, negative ones included
MaxRowsConfigs == (0 - 1) .. MaxCap

VARIABLES
    MAX_ROWS,   \* the configured row cap
    logTableUp, \* whether the etl_logs table takes inserts
    now,        \* the wall clock, in hours
    bucket,     \* the bucket: object key -> JSONL content
    staging,    \* the staging table, a bag of rows
    fact,       \* the fact table, a bag of rows
    pc,         \* each run's position in process_file
    file,       \* each run's uploaded_file
    df,         \* each run's data frame after the cap
    blob,       \* each run's blob_name
    job,        \* each run's awaited job: "none", "running" or "hung"
    trace,      \* each run's stages, external calls and handlers, in order
    status,     \* each run's status widget label
    propagated, \* whether an exception left process_file
    affected,   \* each run's query_job.num_dml_affected_rows
    staged,     \* the JSONL each run wrote to the bucket
    repeat      \* the run started when nothing else ran, after successful runs on
                \* the same file only

vars == <<MAX_ROWS, logTableUp, now, bucket, staging, fact, pc, file, df, blob, job, trace,
          status, propagated, affected, staged, repeat>>

\* ------------------------------------------------------- pure operations

\* df.head(n): the first n rows, and for a negative n all but the last -n
Head_(rows, n) ==
    IF n >= 0 THEN SubSeq(rows, 1, IF n < Len(rows) THEN n ELSE Len(rows))
    ELSE SubSeq(rows, 1, IF Len(rows) + n > 0 THEN Len(rows) + n ELSE 0)

\* the cap taken one row too far
CapOnePast(rows, max) == IF Len(rows) > max THEN Head_(rows, max + 1) ELSE rows

\* lines 64-66: if len(df) > MAX_ROWS: df = df.head(MAX_ROWS)
Cap(rows, max) == IF Len(rows) > max THEN Head_(rows, max) ELSE rows

\* a column check that forgets 'Location ID'
MissingOfTwo(columns) == {"Date and Time", "Rating"} \ columns

\* lines 69-71: missing = required_cols - set(df.columns)
Missing(columns) == required_cols \ columns

\* df.to_json(orient='records', lines=True): one document per row, in row
\* order, each a list of key/value pairs for the columns of the frame
ToJsonLine(row, columns) ==
    <<<<"Date and Time", row.Date_and_Time>>, <<"Location ID", row.Location_ID>>>>
    \o (IF "Name" \in columns THEN <<<<"Name", row.Name>>>> ELSE <<>>)

to_json(rows, columns) == [i \in 1 .. Len(rows) |-> ToJsonLine(rows[i], columns)]

\* the load job's reading of one document into a staging row; a column the
\* document does not have is null
JsonValue(line, key, default) ==
    IF \E i \in 1 .. Len(line) : line[i][1] = key
    THEN LET i == CHOOSE j \in 1 .. Len(line) : line[j][1] = key IN line[i][2]
    ELSE default

FromJsonLine(line) ==
    [Date_and_Time |-> JsonValue(line, "Date and Time", 0),
     Name |-> JsonValue(line, "Name", NULL),
     Location_ID |-> JsonValue(line, "Location ID", NULL)]

RECURSIVE LoadedRows(_)
LoadedRows(jsonl) ==
    IF jsonl = <<>> THEN EmptyBag
    ELSE SetToBag({FromJsonLine(jsonl[1])}) (+) LoadedRows(Tail(jsonl))

\* uploaded_file.name.replace('.csv', '.jsonl')
JsonlName(name) ==
    CASE name = "a.csv" -> "a.jsonl"
      [] OTHER -> name

\* a key that is the run's own
BlobNamePerRun(r, clock, name) == [stamp |-> clock, file |-> JsonlName(name), run |-> r]

\* lines 79-80: blob_name = f"uploads/{timestamp}_{name}"; strftime keeps
\* the clock's value at the clock's own resolution, and the run r takes no
\* part in the key
BlobName(r, clock, name) == [stamp |-> clock, file |-> JsonlName(name)]

\* write_disposition="WRITE_TRUNCATE"
WriteTruncate(table, rows) == rows

\* write_disposition="WRITE_APPEND"
WriteAppend(table, rows) == table (+) rows

\* SQL equality: never true of a NULL operand
SqlEq(a, b) == a # NULL /\ b # NULL /\ a = b

\* a MERGE whose source has no WHERE clause
RecentAlways(s, clock) == TRUE

\* line 126: WHERE `Date and Time` >= TIMESTAMP_SUB(CURRENT_TIMESTAMP(), INTERVAL 24 HOUR)
Recent(s, clock) == s.Date_and_Time >= clock - INTERVAL_HOURS

\* lines 128-130: the ON clause (timestamps are never null in this model)
Matches(t, s) ==
    /\ t.review_timestamp = s.Date_and_Time
    /\ SqlEq(t.customer_name, s.Name)
    /\ SqlEq(t.location_id, s.Location_ID)

\* lines 108-124: the source row as the INSERT writes it
FactRow(s, clock) ==
    [review_timestamp |-> s.Date_and_Time, customer_name |-> s.Name,
     location_id |-> s.Location_ID, etl_load_time |-> clock]

\* lines 105-138: the rows the MERGE inserts: every copy of every source row
\* that matches no row of the target
MergeInserts(target, source, clock) ==
    LET S == {s \in BagToSet(source) : Recent(s, clock)}
        U == {s \in S : ~ \E t \in BagToSet(target) : Matches(t, s)}
    IN  [x \in {FactRow(s, clock) : s \in U} |->
            CopiesIn(CHOOSE s \in U : FactRow(s, clock) = x, source)]


\* ------------------------------------------------------ control structure

\* the MERGE issued right after the object write, before any load
NextStageMergeFirst(stage) ==
    CASE stage = "idle" -> "read"
      [] stage = "read" -> "upload"
      [] stage = "upload" -> "merge_submit"
      [] stage = "merge_submit" -> "merge_wait"
      [] stage = "merge_wait" -> "done"

\* the order of the stages of process_file (lines 53-160)
NextStage(stage) ==
    CASE stage = "idle" -> "read"
      [] stage = "read" -> "upload"
      [] stage = "upload" -> "load_submit"
      [] stage = "load_submit" -> "load_wait"
      [] stage = "load_wait" -> "merge_submit"
      [] stage = "merge_submit" -> "merge_wait"
      [] stage = "merge_wait" -> "done"

\* the except clauses without the last, catch-all one
HandlerWithoutCatchAll(exc) ==
    CASE exc = "EmptyDataError" -> "EmptyDataError"
      [] exc = "ParserError" -> "ParserError"
      [] OTHER -> "unhandled"

\* lines 162-174: the except clause that catches an exception of the
\* pipeline ("unhandled" when none does)
Handler(exc) ==
    CASE exc = "EmptyDataError" -> "EmptyDataError"
      [] exc = "ParserError" -> "ParserError"
      [] OTHER -> "Exception"

\* the operation each except clause logs
HandlerOperation(h) == IF h = "Exception" THEN "PROCESSING" ELSE "FILE_PROCESSING"

\* a wait that gives up on a job that never completes
JobReturnsOrTimesOut(state) == state \in {"running", "hung"}

\* load_job.result() and query_job.result(): block until the job is done;
\* there is no timeout, so a job that never completes never returns
JobReturns(state) == state = "running"

Event(op, arg, ok) == [op |-> op, arg |-> arg, ok |-> ok]

\* lines 34-48: log_to_bigquery inserts one row in etl_logs and swallows
\* every failure of the insert
log_to_bigquery(status_, operation) ==
    <<Event("insert_rows_json", <<status_, operation>>, logTableUp)>>

\* the events of catching exc (lines 162-174)
Except(exc) ==
    IF Handler(exc) = "unhandled" THEN <<>>
    ELSE <<Event("except", Handler(exc), TRUE)>>
         \o log_to_bigquery("ERROR", HandlerOperation(Handler(exc)))

Active(r) == pc[r] \notin {"idle", "done"}

\* the run reached the rendering of its result (lines 148-160)
Succeeded(r) == \E i \in 1 .. Len(trace[r]) : trace[r][i].op = "render"

\* the run leaves process_file through the finally clause (lines 175-176)
Ends(r, evs, escaped) ==
    /\ trace' = [trace EXCEPT ![r] = @ \o evs \o <<Event("status.update", "Process complete", TRUE)>>]
    /\ status' = [status EXCEPT ![r] = "Process complete"]
    /\ pc' = [pc EXCEPT ![r] = "done"]
    /\ propagated' = [propagated EXCEPT ![r] = escaped]
    /\ job' = [job EXCEPT ![r] = "none"]

\* an exception raised in the try block
Raises(r, evs, exc) ==
    Ends(r, evs \o Except(exc), Handler(exc) = "unhandled")

\* the run goes on to its next stage
Continues(r, evs) ==
    /\ trace' = [trace EXCEPT ![r] = @ \o evs]
    /\ pc' = [pc EXCEPT ![r] = NextStage(pc[r])]
    /\ UNCHANGED <<status, propagated>>

\* --------------------------------------------------------------- actions

InitWith(configs, logTable) ==
    /\ MAX_ROWS \in configs
    /\ logTableUp \in logTable
    /\ now = StartHour
    /\ bucket = <<>>
    /\ staging = EmptyBag
    /\ fact = EmptyBag
    /\ pc = [r \in Runs |-> "idle"]
    /\ file = [r \in Runs |-> NoFile]
    /\ df = [r \in Runs |-> <<>>]
    /\ blob = [r \in Runs |-> NoBlob]
    /\ job = [r \in Runs |-> "none"]
    /\ trace = [r \in Runs |-> <<>>]
    /\ status = [r \in Runs |-> "Processing..."]
    /\ propagated = [r \in Runs |-> FALSE]
    /\ affected = [r \in Runs |-> 0]
    /\ staged = [r \in Runs |-> <<>>]
    /\ repeat = [r \in Runs |-> FALSE]

\* lines 50-56: the user presses "Process Data"; the bucket is validated
Start(r, f, bucketOk) ==
    /\ pc[r] = "idle"
    /\ file' = [file EXCEPT ![r] = f]
    /\ repeat' = [repeat EXCEPT ![r] =
                     /\ \E q \in Runs : pc[q] = "done"
                     /\ \A q \in Runs \ {r} :
                           \/ pc[q] = "idle"
                           \/ pc[q] = "done" /\ Succeeded(q) /\ file[q] = f]
    /\ IF bucketOk
       THEN /\ Continues(r, <<Event("get_bucket", "", TRUE)>>)
            /\ job' = job
       ELSE Ends(r, <<Event("get_bucket", "", FALSE)>>
                    \o log_to_bigquery("ERROR", "VALIDATION"), FALSE)
    /\ UNCHANGED <<MAX_ROWS, logTableUp, now, bucket, staging, fact, df, blob, affected, staged>>

\* lines 58-74: parse, cap, validate the columns
ReadCsv(r) ==
    /\ pc[r] = "read"
    /\ CASE file[r].kind = "empty" ->
              /\ Raises(r, <<Event("read_csv", "", FALSE)>>, "EmptyDataError")
              /\ df' = df
         [] file[r].kind = "malformed" ->
              /\ Raises(r, <<Event("read_csv", "", FALSE)>>, "ParserError")
              /\ df' = df
         [] OTHER ->
              /\ df' = [df EXCEPT ![r] = Cap(file[r].rows, MAX_ROWS)]
              /\ IF Missing(file[r].columns) # {}
                 THEN Raises(r, <<Event("read_csv", "", TRUE),
                                  Event("validate_columns", "", FALSE)>>
                                \o log_to_bigquery("ERROR", "VALIDATION"),
                             "ValueError")
                 ELSE /\ Continues(r, <<Event("read_csv", "", TRUE),
                                        Event("validate_columns", "", TRUE)>>)
                      /\ job' = job
    /\ UNCHANGED <<MAX_ROWS, logTableUp, now, bucket, staging, fact, file, blob, affected, staged, repeat>>

\* lines 76-83: serialize and write the object
Upload(r, ok) ==
    /\ pc[r] = "upload"
    /\ LET jsonl == to_json(df[r], file[r].columns)
           blob_name == BlobName(r, now, file[r].name)
       IN  /\ blob' = [blob EXCEPT ![r] = blob_name]
           /\ IF ok
              THEN /\ bucket' = [k \in DOMAIN bucket \cup {blob_name} |->
                                    IF k = blob_name THEN jsonl ELSE bucket[k]]
                   /\ staged' = [staged EXCEPT ![r] = jsonl]
                   /\ Continues(r, <<Event("upload_from_string", blob_name, TRUE)>>)
                   /\ job' = job
              ELSE /\ Raises(r, <<Event("upload_from_string", blob_name, FALSE)>>,
                             "SDKError")
                   /\ UNCHANGED <<bucket, staged>>
    /\ UNCHANGED <<MAX_ROWS, logTableUp, now, staging, fact, file, df, affected, repeat>>

\* lines 94-98: submit the load job
SubmitLoad(r, ok, completes) ==
    /\ pc[r] = "load_submit"
    /\ IF ok
       THEN /\ Continues(r, <<Event("load_table_from_uri", blob[r], TRUE)>>)
            /\ job' = [job EXCEPT ![r] = IF completes THEN "running" ELSE "hung"]
       ELSE Raises(r, <<Event("load_table_from_uri", blob[r], FALSE)>>, "SDKError")
    /\ UNCHANGED <<MAX_ROWS, logTableUp, now, bucket, staging, fact, file, df, blob, affected, staged, repeat>>

\* lines 99-101: the load job ends; its rows are those of the object as the
\* bucket holds it when the job reads it
LoadResult(r, ok) ==
    /\ pc[r] = "load_wait"
    /\ JobReturns(job[r])
    /\ IF ok
       THEN /\ staging' = WriteAppend(staging, LoadedRows(bucket[blob[r]]))
            /\ Continues(r, <<Event("load_job.result", "", TRUE)>>
                            \o log_to_bigquery("SUCCESS", "STAGING_LOAD"))
            /\ job' = [job EXCEPT ![r] = "none"]
       ELSE /\ Raises(r, <<Event("load_job.result", "", FALSE)>>, "SDKError")
            /\ staging' = staging
    /\ UNCHANGED <<MAX_ROWS, logTableUp, now, bucket, fact, file, df, blob, affected, staged, repeat>>

\* lines 105-140: submit the MERGE
SubmitMerge(r, ok, completes) ==
    /\ pc[r] = "merge_submit"
    /\ IF ok
       THEN /\ Continues(r, <<Event("query", "MERGE", TRUE)>>)
            /\ job' = [job EXCEPT ![r] = IF completes THEN "running" ELSE "hung"]
       ELSE Raises(r, <<Event("query", "MERGE", FALSE)>>, "SDKError")
    /\ UNCHANGED <<MAX_ROWS, logTableUp, now, bucket, staging, fact, file, df, blob, affected, staged, repeat>>

\* lines 141-160: the MERGE ends; the result is rendered
MergeResult(r, ok) ==
    /\ pc[r] = "merge_wait"
    /\ JobReturns(job[r])
    /\ IF ok
       THEN LET ins == MergeInserts(fact, staging, now)
            IN  /\ fact' = fact (+) ins
                /\ affected' = [affected EXCEPT ![r] = BagCardinality(ins)]
                /\ Ends(r, <<Event("query_job.result", "", TRUE)>>
                            \o log_to_bigquery("SUCCESS", "FACT_UPDATE")
                            \o <<Event("render", "", TRUE)>>, FALSE)
       ELSE /\ Raises(r, <<Event("query_job.result", "", FALSE)>>, "SDKError")
            /\ UNCHANGED <<fact, affected>>
    /\ UNCHANGED <<MAX_ROWS, logTableUp, now, bucket, staging, file, df, blob, staged, repeat>>

\* time passes
Tick ==
    /\ now + TickHours <= MaxNow
    /\ now' = now + TickHours
    /\ UNCHANGED <<MAX_ROWS, logTableUp, bucket, staging, fact, pc, file, df, blob, job, trace,
                   status, propagated, affected, staged, repeat>>

\* one step of session r, which uploads a file of `files` and whose jobs
\* end or not as `fates` has it
StepOn(r, files, fates) ==
    \/ \E f \in files, bucketOk \in BOOLEAN : Start(r, f, bucketOk)
    \/ ReadCsv(r)
    \/ \E ok \in BOOLEAN : Upload(r, ok)
    \/ \E ok \in BOOLEAN, completes \in fates :
          SubmitLoad(r, ok, completes)
    \/ \E ok \in BOOLEAN : LoadResult(r, ok)
    \/ \E ok \in BOOLEAN, completes \in fates :
          SubmitMerge(r, ok, completes)
    \/ \E ok \in BOOLEAN : MergeResult(r, ok)

\* a session whose jobs all end
Step(r) == StepOn(r, Files, {TRUE})

Next == (\E r \in Runs : Step(r)) \/ Tick

\* the sessions of the portal under its default configuration
Init == InitWith({DEFAULT_MAX_ROWS}, {TRUE})

Spec == Init /\ [][Next]_vars

\* one session, under every configuration of the row cap, with the etl_logs
\* table taking inserts or refusing them, and jobs that may never end
SoloInit == InitWith(MaxRowsConfigs, BOOLEAN)

SoloNext == StepOn(1, Files, BOOLEAN) \/ Tick

SoloSpec == SoloInit /\ [][SoloNext]_vars

\* ---------------------------------------------------------------- claims

Ops(r) == [i \in 1 .. Len(trace[r]) |-> trace[r][i].op]

Did(r, op) == \E i \in 1 .. Len(trace[r]) : trace[r][i].op = op /\ trace[r][i].ok

Failed(r, op) == \E i \in 1 .. Len(trace[r]) : trace[r][i].op = op /\ ~ trace[r][i].ok

ExternalCalls ==
    {"get_bucket", "insert_rows_json", "upload_from_string", "load_table_from_uri",
     "load_job.result", "query", "query_job.result"}

LacksRequired(r) == file[r].kind = "csv" /\ ~ (required_cols \subseteq file[r].columns)

\* C1 as stated: a file that lacks a required column is rejected (the
\* ValueError is raised and caught) before the run has made any call to an
\* external service.
C1_NoCallBeforeRejection ==
    \A r \in Runs : \A i \in 1 .. Len(trace[r]) :
        (LacksRequired(r) /\ trace[r][i].op = "except") =>
            \A j \in 1 .. i - 1 : trace[r][j].op \notin ExternalCalls

\* C1 amended: a run on a file that lacks a required column never writes an
\* object, never submits or awaits a load job and never submits or awaits a
\* SQL statement; what precedes the rejection is the bucket-existence check,
\* the parse, the column check and one insert of the VALIDATION error in the
\* warehouse log.
C1_NoWriteLoadOrSqlOnRejection ==
    \A r \in Runs :
        LacksRequired(r) =>
            /\ \A i \in 1 .. Len(trace[r]) :
                  trace[r][i].op \notin {"upload_from_string", "load_table_from_uri",
                                         "load_job.result", "query", "query_job.result"}
            /\ blob[r] = NoBlob
            /\ \A i \in 1 .. Len(trace[r]) :
                  trace[r][i].op = "except" =>
                     /\ SubSeq(Ops(r), 1, i - 1) =
                           <<"get_bucket", "read_csv", "validate_columns", "insert_rows_json">>
                     /\ trace[r][i - 1].arg = <<"ERROR", "VALIDATION">>
                     /\ trace[r][i].arg = "Exception"
            /\ (pc[r] = "done" /\ Did(r, "get_bucket")) => Failed(r, "validate_columns")

C1_Witness ==
    \E r \in Runs : pc[r] = "done" /\ LacksRequired(r) /\ Failed(r, "validate_columns")

Min(a, b) == IF a < b THEN a ELSE b

Max(a, b) == IF a > b THEN a ELSE b

FirstRows(r) == SubSeq(file[r].rows, 1, Min(Len(file[r].rows), MAX_ROWS))

\* C2 as stated: under every configured MAX_ROWS, what a run writes to the
\* bucket is at most MAX_ROWS rows, the first min(n, MAX_ROWS) rows of the
\* file in their order (no row at all can be within a negative cap, so
\* what a negative cap allows is read as no row).
C2_StagedIsCappedPrefix ==
    \A r \in Runs :
        Did(r, "upload_from_string") =>
            /\ Len(staged[r]) <= Max(MAX_ROWS, 0)
            /\ staged[r] = [i \in 1 .. Len(FirstRows(r)) |->
                               ToJsonLine(FirstRows(r)[i], file[r].columns)]

\* C2 amended: the same, under every configured MAX_ROWS that is not
\* negative.
C2_StagedIsCappedPrefixNonNegative == MAX_ROWS >= 0 => C2_StagedIsCappedPrefix

C2_Witness ==
    \E r \in Runs :
        /\ Did(r, "upload_from_string")
        /\ MAX_ROWS >= 1
        /\ Len(file[r].rows) > MAX_ROWS
        /\ bucket[blob[r]] = staged[r]

SameKey(t, u) ==
    /\ t.review_timestamp = u.review_timestamp
    /\ t.customer_name = u.customer_name
    /\ t.location_id = u.location_id

\* C3: the fact table never holds two rows with the same
\* (review_timestamp, customer_name, location_id).
C3_FactKeysUnique ==
    \A t \in BagToSet(fact) :
        /\ CopiesIn(t, fact) = 1
        /\ \A u \in BagToSet(fact) : SameKey(t, u) => t = u

\* C4: a run that processes again, alone and at the same clock, the file
\* the runs before it processed successfully inserts no row and leaves the
\* fact table as it was.
C4_ReprocessingIsIdempotent ==
    [][\A r \in Runs :
          (/\ pc[r] = "merge_wait"
           /\ pc'[r] = "done"
           /\ Succeeded(r)'
           /\ repeat[r]
           /\ \A q \in Runs \ {r} : ~ Active(q)
           /\ \A t \in BagToSet(fact) : t.etl_load_time = now)
          => (affected'[r] = 0 /\ fact' = fact)]_vars

\* C5: no step removes an object from the bucket or a row from the staging
\* table; a run that ends after its object write succeeded leaves the object
\* in the bucket, and no run makes any external call twice (no retry), nor
\* any call but the pipeline's own.
C5_NoCompensation ==
    [][/\ \A k \in DOMAIN bucket : k \in DOMAIN bucket'
       /\ staging \sqsubseteq staging'
       /\ \A r \in Runs :
             LET tr == trace'[r]
             IN  /\ (pc'[r] = "done" /\ Did(r, "upload_from_string")') =>
                       blob'[r] \in DOMAIN bucket'
                 /\ \A i \in 1 .. Len(tr) :
                       /\ tr[i].op \in ExternalCalls
                             \cup {"read_csv", "validate_columns", "except", "render",
                                   "status.update"}
                       /\ tr[i].op # "insert_rows_json" =>
                             \A j \in 1 .. i - 1 : tr[j].op # tr[i].op]_vars

C5_Witness ==
    \E r \in Runs :
        /\ pc[r] = "done"
        /\ Failed(r, "query_job.result")
        /\ blob[r] \in DOMAIN bucket
        /\ LoadedRows(staged[r]) \sqsubseteq staging
        /\ staging # EmptyBag

\* sessions whose jobs may never end, on the files of at most one row (the
\* rows of a file decide no branch of process_file)
ShortFiles ==
    {f \in Files : Len(f.rows) <= 1 /\ \A i \in 1 .. Len(f.rows) :
                       f.rows[i].Name # NULL /\ f.rows[i].Date_and_Time = 12}

LiveStep(r) == StepOn(r, ShortFiles, BOOLEAN)

LiveNext == (\E r \in Runs : LiveStep(r)) \/ Tick

\* what the code's scheduling gives: a session that can take a step takes
\* one, and a job that is not hung ends
LiveSpec == Init /\ [][LiveNext]_vars /\ \A r \in Runs : WF_vars(LiveStep(r))

\* C6: a run whose awaited job never completes stays where it waits, and is
\* never marked complete; every other run that started ends with its status
\* set to 'Process complete'.
C6_BlocksWithoutTimeout ==
    /\ [](\A r \in Runs :
            job[r] = "hung" =>
               pc[r] \in {"load_wait", "merge_wait"} /\ status[r] # "Process complete")
    /\ [][\A r \in Runs :
            job[r] = "hung" => (pc'[r] = pc[r] /\ job'[r] = "hung" /\ trace'[r] = trace[r])]_vars
    /\ \A r \in Runs :
          (pc[r] # "idle") ~> (status[r] = "Process complete" \/ job[r] = "hung")

C6_Witness ==
    \E r, q \in Runs :
        /\ job[r] = "hung"
        /\ pc[r] = "load_wait"
        /\ Succeeded(q)
        /\ status[q] = "Process complete"

HasKeyOf(t, s) ==
    /\ t.review_timestamp = s.Date_and_Time
    /\ t.customer_name = s.Name
    /\ t.location_id = s.Location_ID

\* C7: a run that writes its object at the clock value and under the file
\* name of another run's object writes that same key, replacing the
\* object; and after a run's MERGE every staging row of the last 24 hours,
\* whichever run loaded it, has its row in the fact table.
C7_Uncoordinated ==
    [][\A r \in Runs :
          /\ (pc[r] = "upload" /\ pc'[r] = "load_submit") =>
                \A q \in Runs \ {r} :
                   (Did(q, "upload_from_string") /\ blob[q].stamp = now
                        /\ file[q].name = file[r].name) =>
                      /\ blob'[r] = blob[q]
                      /\ DOMAIN bucket' = DOMAIN bucket
                      /\ bucket'[blob[q]] = staged'[r]
          /\ (pc[r] = "merge_wait" /\ Succeeded(r)') =>
                \A s \in BagToSet(staging) :
                   s.Date_and_Time >= now - INTERVAL_HOURS =>
                      \E t \in BagToSet(fact') : HasKeyOf(t, s)]_vars

C7_Witness ==
    \E r, q \in Runs :
        /\ r # q
        /\ Succeeded(r)
        /\ pc[q] \in {"merge_submit", "merge_wait"}
        /\ blob[r] = blob[q]
        /\ staged[r] # staged[q]
        /\ \E t \in BagToSet(fact) :
              \A i \in 1 .. Len(file[r].rows) : ~ HasKeyOf(t, file[r].rows[i])

StageOrder ==
    <<"get_bucket", "read_csv", "validate_columns", "upload_from_string",
      "load_table_from_uri", "load_job.result", "query", "query_job.result", "render">>

IsStage(e) == \E i \in 1 .. Len(StageOrder) : StageOrder[i] = e.op

Stages(r) == SelectSeq(trace[r], IsStage)

\* C8: the stages of a run happen in the fixed order, none is skipped, and
\* a stage is reached only when every stage before it succeeded; a run whose
\* bucket check fails logs one VALIDATION error and returns.
C8_StagesInOrder ==
    \A r \in Runs :
        LET st == Stages(r)
            ops == Ops(r)
        IN  /\ Len(st) <= Len(StageOrder)
            /\ \A i \in 1 .. Len(st) :
                  /\ st[i].op = StageOrder[i]
                  /\ i < Len(st) => st[i].ok
            /\ Failed(r, "get_bucket") =>
                  /\ ops = <<"get_bucket", "insert_rows_json", "status.update">>
                  /\ trace[r][2].arg = <<"ERROR", "VALIDATION">>
            /\ (\E i \in 1 .. Len(ops) : ops[i] = "query") => Did(r, "load_job.result")
            /\ (\E i \in 1 .. Len(ops) : ops[i] = "load_table_from_uri") =>
                  Did(r, "upload_from_string")

C8_Witness ==
    \E r, q \in Runs :
        /\ Succeeded(r)
        /\ Len(Stages(r)) = Len(StageOrder)
        /\ pc[q] = "done"
        /\ Failed(q, "load_job.result")
        /\ Len(Stages(q)) < Len(StageOrder)

\* the exception each failing stage raises
Raised(r, e) ==
    CASE e.op = "read_csv" /\ file[r].kind = "empty" -> "EmptyDataError"
      [] e.op = "read_csv" /\ file[r].kind = "malformed" -> "ParserError"
      [] OTHER -> "Exception"

\* C9: no exception leaves process_file; a stage that fails after the bucket
\* check is caught by the clause for its exception, which attempts one
\* ERROR log insert; a failed log insert stops nothing; and a run that has
\* ended has its status set to 'Process complete', last of all.
C9_NothingEscapes ==
    \A r \in Runs :
        /\ ~ propagated[r]
        /\ \A i \in 1 .. Len(trace[r]) :
              /\ (IsStage(trace[r][i]) /\ ~ trace[r][i].ok /\ trace[r][i].op # "get_bucket") =>
                    \E j \in i + 1 .. Len(trace[r]) :
                       /\ trace[r][j].op = "except"
                       /\ trace[r][j].arg = Raised(r, trace[r][i])
              /\ trace[r][i].op = "except" =>
                    /\ i < Len(trace[r])
                    /\ trace[r][i + 1].op = "insert_rows_json"
                    /\ trace[r][i + 1].arg[1] = "ERROR"
                    /\ \A j \in 1 .. Len(trace[r]) : trace[r][j].op = "except" => j = i
              /\ trace[r][i].op = "insert_rows_json" => trace[r][i].ok = logTableUp
        /\ pc[r] = "done" =>
              /\ status[r] = "Process complete"
              /\ trace[r][Len(trace[r])].op = "status.update"
              /\ (\A i \in 1 .. Len(trace[r]) : IsStage(trace[r][i]) => trace[r][i].ok)
                    => Succeeded(r)
        /\ (pc[r] # "done") =>
              /\ status[r] = "Processing..."
              /\ \A i \in 1 .. Len(trace[r]) : IsStage(trace[r][i]) => trace[r][i].ok

C9_Witness ==
    \E r \in Runs :
        /\ pc[r] = "done"
        /\ ~ logTableUp
        /\ Failed(r, "query_job.result")
        /\ Failed(r, "insert_rows_json")
        /\ \E i \in 1 .. Len(trace[r]) : trace[r][i].op = "except"
        /\ status[r] = "Process complete"

\* C10 as stated: every fact row's timestamp lies within the 24 hours before
\* the MERGE that inserted it.
C10_InsertedWithinLastDay ==
    \A t \in BagToSet(fact) :
        /\ t.review_timestamp >= t.etl_load_time - INTERVAL_HOURS
        /\ t.review_timestamp <= t.etl_load_time

\* C10 amended: every fact row's timestamp is no earlier than 24 hours
\* before the MERGE that inserted it (a timestamp after the MERGE's clock
\* qualifies too), so a staging row that is older is inserted by no MERGE,
\* then or later; and no step changes or removes a fact row.
C10_InsertOnlyNotOlderThanADay ==
    [][/\ fact \sqsubseteq fact'
       /\ \A t \in BagToSet(fact') :
             /\ t.review_timestamp >= t.etl_load_time - INTERVAL_HOURS
             /\ t.etl_load_time <= now'
       /\ \A r \in Runs :
             (pc[r] = "merge_wait" /\ pc'[r] = "done") =>
                \A s \in BagToSet(staging) :
                   (s.Date_and_Time < now - INTERVAL_HOURS
                       /\ ~ \E t \in BagToSet(fact) : HasKeyOf(t, s))
                      => ~ \E t \in BagToSet(fact') : HasKeyOf(t, s)]_vars

C10_Witness ==
    \E r \in Runs :
        /\ Succeeded(r)
        /\ fact # EmptyBag
        /\ \E s \in BagToSet(staging) :
              /\ s.Date_and_Time < now - INTERVAL_HOURS
              /\ \A t \in BagToSet(fact) : t.review_timestamp # s.Date_and_Time

====
